---------------------------- MODULE Spec2Model ----------------------------
(***************************************************************************)
(* A model of dsm/datasets.py: the dataset readers (_load_pbc_dataset,     *)
(* _load_support_dataset), the dispatcher load_dataset and the censoring   *)
(* augmenter increase_censoring.                                           *)
(*                                                                         *)
(* Numbers live on a grid of 1/UDen: the number v is stored as v * UDen.   *)
(* numpy arrays are objects of a heap (a sequence, the index is the        *)
(* object's identity), so that aliasing and in-place mutation are visible. *)
(***************************************************************************)
EXTENDS Integers, Sequences, FiniteSets, TLC

VARIABLES pkg,     \* the packaged resources datasets/pbc2.csv, datasets/support2.csv
          heap,    \* the numpy arrays alive, by identity
          pairs,   \* the (e, t) pairs of array identities the caller holds
          call,    \* the last call: its arguments and the state on entry
          ret,     \* the last call's outcome
          ncalls   \* calls made so far

vars == <<pkg, heap, pairs, call, ret, ncalls>>

---------------------------------------------------------------------------
(* Bounds of the model *)

MaxRows == 3      \* rows of a packaged table
MaxId == 2        \* subject identifiers of the PBC table are 1..MaxId
MaxCalls == 3     \* calls of one session
MaxLen == 3       \* length of the arrays handed to increase_censoring
UDen == 2         \* grid: numbers are multiples of 1/UDen; a random draw is k/UDen

---------------------------------------------------------------------------
(* Numbers, missing values, arrays *)

NaN == -1

IsNaN(v) == v = NaN

Whole(n) == n * UDen

Array(dtype, data) == [dtype |-> dtype, data |-> data]

RECURSIVE SumSeq(_)
SumSeq(s) == IF s = <<>> THEN 0 ELSE Head(s) + SumSeq(Tail(s))

\* a[mask] for a boolean mask of a's length: the entries where mask holds, in order
RECURSIVE BoolIndex(_, _)
BoolIndex(a, mask) ==
  IF a = <<>> THEN <<>>
  ELSE (IF Head(mask) THEN <<Head(a)>> ELSE <<>>) \o BoolIndex(Tail(a), Tail(mask))

\* data[c].values
ColumnOf(data, c) == [j \in 1..Len(data) |-> data[j][c]]

\* the dtype pd.read_csv infers for a numeric column: int64 when every cell is
\* present and written without a decimal point, float64 otherwise
ReadCsvDtype(col, decimals) ==
  IF ~decimals /\ \A j \in 1..Len(col) : ~IsNaN(col[j]) /\ col[j] % UDen = 0
  THEN "int64" ELSE "float64"

\* pd.get_dummies of one text column: one 0/1 column per category present,
\* categories in sorted order (order lists the column's values, sorted)
get_dummies(col, order) ==
  LET Present(c) == \E j \in 1..Len(col) : col[j] = c
      cats == SelectSeq(order, Present)
  IN [j \in 1..Len(col) |->
        [k \in 1..Len(cats) |-> IF col[j] = cats[k] THEN Whole(1) ELSE 0]]

\* np.hstack / np.concatenate(axis=1): row-wise concatenation of two blocks
hstack(a, b) == [j \in 1..Len(a) |-> a[j] \o b[j]]

\* The imputer's transform, obs the observed cells of each column: a column with
\* none is dropped, a missing cell becomes the mean of its column's observed ones
ImputerTransform(x, obs) ==
  LET HasObs(c) == Len(obs[c]) > 0
      kept == SelectSeq([c \in 1..Len(x[1]) |-> c], HasObs)
      Cell(j, c) == IF IsNaN(x[j][c])
                    THEN <<SumSeq(obs[c]), Len(obs[c])>>
                    ELSE <<x[j][c] * Len(obs[c]), Len(obs[c])>>
  IN [j \in 1..Len(x) |-> [k \in 1..Len(kept) |-> Cell(j, kept[k])]]

\* SimpleImputer(missing_values=np.nan, strategy='mean').fit_transform(x):
\* a cell of the result is <<p, q>>, the rational p/q, q the column's number of
\* observed cells.
SimpleImputer_fit_transform(x) ==
  LET Observed(v) == ~IsNaN(v)
  IN ImputerTransform(x, [c \in 1..Len(x[1]) |-> SelectSeq(ColumnOf(x, c), Observed)])

\* With n rows and column cells p_j/q: d_j = n * p_j - Sum(p), the cell's
\* distance to the column mean times n * q
Centered(x, sum) ==
  [c \in 1..Len(x[1]) |-> [j \in 1..Len(x) |-> Len(x) * x[j][c][1] - sum[c]]]

\* The centered cell over the column's standard deviation (taken as 1 for a
\* constant column) is d_j * sqrt(n / ss), ss = Sum(d_j^2), and 0 when ss = 0:
\* the cell keeps d, n and ss, which determine it exactly.
Scaled(d, n, ss) ==
  [j \in 1..n |-> [c \in 1..Len(d) |-> [d |-> d[c][j], n |-> n, ss |-> ss[c]]]]

SumSquares(d) ==
  [c \in 1..Len(d) |-> SumSeq([j \in 1..Len(d[c]) |-> d[c][j] * d[c][j]])]

Standardized(d, n) == Scaled(d, n, SumSquares(d))

\* StandardScaler().fit_transform(x): (x - mean) / std per column
StandardScaler_fit_transform(x) ==
  Standardized(
    Centered(x, [c \in 1..Len(x[1]) |-> SumSeq([j \in 1..Len(x) |-> x[j][c][1]])]),
    Len(x))

\* a - b elementwise, a missing operand giving a missing result
Minus(a, b) ==
  [j \in 1..Len(a) |-> IF IsNaN(a[j]) \/ IsNaN(b[j]) THEN NaN ELSE a[j] - b[j]]

Plus(a, b) ==
  [j \in 1..Len(a) |-> IF IsNaN(a[j]) \/ IsNaN(b[j]) THEN NaN ELSE a[j] + b[j]]

---------------------------------------------------------------------------
(* The PBC reader *)

\* data['histologic'].astype(str): the stage number as text
astype_str(col) == [j \in 1..Len(col) |-> <<"1", "2", "3", "4">>[col[j]]]

\* sorted(list(set(ids)))
RECURSIVE sorted(_)
sorted(S) ==
  IF S = {} THEN <<>>
  ELSE LET m == CHOOSE v \in S : \A w \in S : v <= w
       IN <<m>> \o sorted(S \ {m})

\* The covariate matrix, time and event of the PBC table, before the reshaping
PbcFlat(data) ==
  LET histologic == astype_str(ColumnOf(data, "histologic"))
      x1 == hstack(get_dummies(ColumnOf(data, "drug"), <<"D-penicil", "placebo">>),
                   get_dummies(histologic, <<"1", "2", "3", "4">>))
      x2 == [j \in 1..Len(data) |-> <<data[j].serBilir>>]
      age == Plus(ColumnOf(data, "age"), ColumnOf(data, "years"))
      x3 == [j \in 1..Len(data) |-> <<age[j]>>]
      x == hstack(hstack(x1, x2), x3)
      time == Minus(ColumnOf(data, "years"), ColumnOf(data, "year"))
      event == ColumnOf(data, "status2")
      x_ == StandardScaler_fit_transform(SimpleImputer_fit_transform(x))
  IN [x |-> Array("float64", x_),
      t |-> Array(ReadCsvDtype(time, TRUE), time),
      e |-> Array("int64", event)]

\* The return of the reader: the flat triple, or its rows grouped by subject
\* identifier, ascending
PbcReturn(flat, id, ids, sequential) ==
  LET Is(id_) == [j \in 1..Len(id) |-> id[j] = id_]
      Slice(a, id_) == Array(a.dtype, BoolIndex(a.data, Is(id_)))
  IN IF ~sequential
     THEN [type |-> "arrays", x |-> flat.x, t |-> flat.t, e |-> flat.e]
     ELSE [type |-> "lists",
           x |-> [k \in 1..Len(ids) |-> Slice(flat.x, ids[k])],
           t |-> [k \in 1..Len(ids) |-> Slice(flat.t, ids[k])],
           e |-> [k \in 1..Len(ids) |-> Slice(flat.e, ids[k])]]

\* the subject identifiers in the order of their first row
RECURSIVE FirstSeen(_)
FirstSeen(id) ==
  IF id = <<>> THEN <<>>
  ELSE LET NotHead(v) == v # Head(id)
       IN <<Head(id)>> \o FirstSeen(SelectSeq(Tail(id), NotHead))

\* a reader that does not sort the identifiers
SubjectIds_Unsorted(id) == FirstSeen(id)

SubjectIds(id) == sorted({id[j] : j \in 1..Len(id)})

load_pbc_dataset(data, sequential) ==
  PbcReturn(PbcFlat(data), ColumnOf(data, "id"), SubjectIds(ColumnOf(data, "id")),
            sequential)

---------------------------------------------------------------------------
(* The SUPPORT reader *)

\* a reader that filters x and t and forgets e
SupportReturn_RawE(full) ==
  LET remove == [j \in 1..Len(full.t.data) |-> ~IsNaN(full.t.data[j])]
  IN [type |-> "arrays",
      x |-> Array(full.x.dtype, BoolIndex(full.x.data, remove)),
      t |-> Array(full.t.dtype, BoolIndex(full.t.data, remove)),
      e |-> full.e]

\* a reader that forgets the filter
SupportReturn_NoFilter(full) ==
  [type |-> "arrays", x |-> full.x, t |-> full.t, e |-> full.e]

\* The return of the reader: the rows whose time is present
SupportReturn(full) ==
  LET remove == [j \in 1..Len(full.t.data) |-> ~IsNaN(full.t.data[j])]
  IN [type |-> "arrays",
      x |-> Array(full.x.dtype, BoolIndex(full.x.data, remove)),
      t |-> Array(full.t.dtype, BoolIndex(full.t.data, remove)),
      e |-> Array(full.e.dtype, BoolIndex(full.e.data, remove))]

\* The covariate matrix, time and event of the SUPPORT table, before the filter
SupportFull(data) ==
  LET x1 == [j \in 1..Len(data) |-> <<data[j].alb>>]
      x2 == get_dummies(ColumnOf(data, "sex"), <<"female", "male">>)
      x == hstack(x1, x2)
      t == ColumnOf(data, "d_time")
      e == ColumnOf(data, "death")
  IN [x |-> Array("float64",
                  StandardScaler_fit_transform(SimpleImputer_fit_transform(x))),
      t |-> Array(ReadCsvDtype(t, FALSE), t),
      e |-> Array("int64", e)]

load_support_dataset(data) == SupportReturn(SupportFull(data))

---------------------------------------------------------------------------
(* The dispatcher *)

\* kwargs.get(key, default)
kwargs_get(kwargs, key, default) ==
  IF key \in DOMAIN kwargs THEN kwargs[key] ELSE default

\* a dispatcher whose sequential option defaults to true
load_dataset_SequentialDefault(files, dataset, kwargs) ==
  IF dataset = "SUPPORT"
  THEN [kind |-> "return", value |-> load_support_dataset(files.support)]
  ELSE IF dataset = "PBC"
  THEN [kind |-> "return",
        value |-> load_pbc_dataset(files.pbc, kwargs_get(kwargs, "sequential", TRUE))]
  ELSE [kind |-> "return",
        value |-> [type |-> "NotImplementedError",
                   args |-> <<"Dataset ", dataset, " not implemented.">>]]

\* What load_dataset hands back, arrays not yet placed: kind says whether the
\* call returned or raised
load_dataset(files, dataset, kwargs) ==
  IF dataset = "SUPPORT"
  THEN [kind |-> "return", value |-> load_support_dataset(files.support)]
  ELSE IF dataset = "PBC"
  THEN [kind |-> "return",
        value |-> load_pbc_dataset(files.pbc, kwargs_get(kwargs, "sequential", FALSE))]
  ELSE [kind |-> "return",
        value |-> [type |-> "NotImplementedError",
                   args |-> <<"Dataset ", dataset, " not implemented.">>]]

---------------------------------------------------------------------------
(* The heap *)

\* arrays kept in one buffer that every load writes again
NewId_Shared(h) == 1

\* The identity of the next array created: one no array alive has
NewId(h) == Len(h) + 1

\* The heap with the arrays new placed from identity base on
Place(h, base, new) ==
  [i \in 1..(IF Len(h) > base + Len(new) - 1 THEN Len(h) ELSE base + Len(new) - 1) |->
     IF i >= base /\ i < base + Len(new) THEN new[i - base + 1] ELSE h[i]]

\* Placing a returned value's arrays on the heap: every array a load creates is
\* a new object. The value handed to the caller names the arrays by identity.
AllocAt(h, v, base) ==
  IF v.type = "arrays"
  THEN [heap |-> Place(h, base, <<v.x, v.t, v.e>>),
        value |-> [type |-> "arrays", x |-> base, t |-> base + 1, e |-> base + 2]]
  ELSE IF v.type = "lists"
  THEN LET k == Len(v.x)
           At(i) == LET s == (i - 1) \div 3 + 1
                    IN <<v.x[s], v.t[s], v.e[s]>>[((i - 1) % 3) + 1]
       IN [heap |-> Place(h, base, [i \in 1..(3 * k) |-> At(i)]),
           value |-> [type |-> "lists",
                      x |-> [s \in 1..k |-> base + 3 * (s - 1)],
                      t |-> [s \in 1..k |-> base + 3 * (s - 1) + 1],
                      e |-> [s \in 1..k |-> base + 3 * (s - 1) + 2]]]
  ELSE [heap |-> h, value |-> v]

Alloc(h, v) == AllocAt(h, v, NewId(h))

\* The (e, t) pairs of a returned value
PairsOf(v) ==
  IF v.type = "arrays" THEN {<<v.e, v.t>>}
  ELSE IF v.type = "lists" THEN {<<v.e[s], v.t[s]>> : s \in 1..Len(v.e)}
  ELSE IF v.type = "pair" THEN {<<v.e, v.t>>}
  ELSE {}

\* The value with the arrays it names read from the heap
Deref(h, v) ==
  IF v.type = "arrays"
  THEN [type |-> "arrays", x |-> h[v.x], t |-> h[v.t], e |-> h[v.e]]
  ELSE IF v.type = "lists"
  THEN [type |-> "lists",
        x |-> [s \in 1..Len(v.x) |-> h[v.x[s]]],
        t |-> [s \in 1..Len(v.t) |-> h[v.t[s]]],
        e |-> [s \in 1..Len(v.e) |-> h[v.e[s]]]]
  ELSE v

\* The identities of the arrays a value names
IdsOf(v) ==
  IF v.type = "arrays" THEN {v.x, v.t, v.e}
  ELSE IF v.type = "lists"
  THEN {v.x[s] : s \in 1..Len(v.x)} \cup {v.t[s] : s \in 1..Len(v.t)}
         \cup {v.e[s] : s \in 1..Len(v.e)}
  ELSE IF v.type = "pair" THEN {v.e, v.t}
  ELSE {}

---------------------------------------------------------------------------
(* The censoring augmenter *)

\* candidates drawn from every index
np_where_All(e) == [i \in 1..Len(e) |-> i]

\* np.where(e == 1)[0]: the indices of the observed events, ascending
np_where(e) ==
  LET IsOne(i) == e[i] = 1
  IN SelectSeq([i \in 1..Len(e) |-> i], IsOne)

\* np.random.choice([False, True], n, p=[1-p, p]): the masks that can be drawn;
\* an outcome of probability 0 is never drawn. p is on the grid (p = 1 is Whole(1)).
np_random_choice(n, p) ==
  {mask \in [1..n -> BOOLEAN] :
     \A k \in 1..n : IF mask[k] THEN p > 0 ELSE Whole(1) - p > 0}

\* np.random.uniform(low, high) = low + (high - low) * u, u the draw k/UDen of
\* [0, 1): exact on the grid for whole low and high
np_random_uniform(low, high, k) ==
  IF IsNaN(high) THEN NaN ELSE low + ((high - low) * k) \div UDen

\* the value stored by an assignment into an array of that dtype: an integer
\* array truncates
astype(dtype, v) ==
  IF dtype = "int64" /\ ~IsNaN(v) THEN (v \div UDen) * UDen ELSE v

\* The contents of e and t after the switch, for the mask and the uniform draws u
\* that the random source gives, and the indices switched
Resampled(e, t, dtype, mask, u) ==
  LET uncens == np_where(e)
      toswitch == BoolIndex(uncens, mask)
      Pos(i) == CHOOSE k \in 1..Len(toswitch) : toswitch[k] = i
      Switched(i) == \E k \in 1..Len(toswitch) : toswitch[k] = i
      t_ == [k \in 1..Len(toswitch) |-> t[toswitch[k]]]
      newt == [k \in 1..Len(toswitch) |-> np_random_uniform(Whole(1), t_[k], u[k])]
  IN [e |-> [i \in 1..Len(e) |-> IF Switched(i) THEN 0 ELSE e[i]],
      t |-> [i \in 1..Len(t) |-> IF Switched(i) THEN astype(dtype, newt[Pos(i)]) ELSE t[i]],
      toswitch |-> toswitch]

\* The assignments e[toswitch] = 0 and t[toswitch] = newt write into the caller's
\* arrays, and those arrays are returned
InPlace(h, eId, tId, r) ==
  [heap |-> [h EXCEPT ![eId].data = r.e, ![tId].data = r.t],
   value |-> [type |-> "pair", e |-> eId, t |-> tId],
   toswitch |-> r.toswitch]

\* an augmenter that works on copies and returns them
Copied(h, eId, tId, r) ==
  [heap |-> h \o <<Array(h[eId].dtype, r.e), Array(h[tId].dtype, r.t)>>,
   value |-> [type |-> "pair", e |-> Len(h) + 1, t |-> Len(h) + 2],
   toswitch |-> r.toswitch]

increase_censoring_Copy(h, eId, tId, mask, u) ==
  Copied(h, eId, tId, Resampled(h[eId].data, h[tId].data, h[tId].dtype, mask, u))

\* increase_censoring(e, t, p) on the arrays eId and tId of heap h
increase_censoring(h, eId, tId, mask, u) ==
  InPlace(h, eId, tId, Resampled(h[eId].data, h[tId].data, h[tId].dtype, mask, u))

\* The number of entries a mask selects
RECURSIVE CountTrue(_)
CountTrue(mask) ==
  IF mask = <<>> THEN 0 ELSE (IF Head(mask) THEN 1 ELSE 0) + CountTrue(Tail(mask))

---------------------------------------------------------------------------
(* The packaged tables *)

\* A row of pbc2.csv: drug, years, status2 and age belong to the subject, year,
\* histologic and serBilir to the visit
PbcRow(id, year, serBilir) ==
  [id |-> id, year |-> year, years |-> Whole(id + 1), status2 |-> id % 2,
   drug |-> IF id % 2 = 1 THEN "D-penicil" ELSE "placebo",
   histologic |-> IF year = 0 THEN 3 ELSE 4,
   serBilir |-> serBilir, age |-> Whole(50)]

SupportRow(d_time, death, alb, sex) ==
  [d_time |-> d_time, death |-> death, alb |-> alb, sex |-> sex]

\* The PBC tables: any subject and visit year in each row; serBilir is missing
\* in the first row and differs from row to row, so that rows can be told apart
PbcTables ==
  UNION {{[j \in 1..n |-> PbcRow(c[j][1], c[j][2], IF j = 1 THEN NaN ELSE Whole(j))] :
            c \in [1..n -> (1..MaxId) \X {0, Whole(1), Whole(2)}]} : n \in 1..MaxRows}

\* The SUPPORT tables: in each row the time is missing or present, death is 0 or
\* 1, alb is missing or present; present values differ from row to row
SupportTables ==
  UNION {{[j \in 1..n |->
             SupportRow(IF c[j][1] THEN Whole(j) ELSE NaN, c[j][2],
                        IF c[j][3] THEN Whole(j) ELSE NaN,
                        IF j % 2 = 1 THEN "male" ELSE "female")] :
            c \in [1..n -> BOOLEAN \X {0, 1} \X BOOLEAN]} : n \in 1..MaxRows}

CanonPbc ==
  <<PbcRow(2, 0, Whole(2)), PbcRow(1, 0, NaN), PbcRow(2, Whole(1), Whole(4)),
    PbcRow(1, Whole(1), Whole(2))>>

CanonSupport ==
  <<SupportRow(Whole(3), 1, NaN, "female"), SupportRow(NaN, 1, Whole(2), "male"),
    SupportRow(Whole(1), 0, Whole(4), "male")>>

CanonSupportInt ==
  <<SupportRow(Whole(3), 1, Whole(2), "male"), SupportRow(Whole(2), 1, NaN, "female")>>

\* the packages of a session
SessionPackages ==
  {[pbc |-> CanonPbc, support |-> CanonSupport],
   [pbc |-> CanonPbc, support |-> CanonSupportInt]}

\* the packages a single load is applied to
LoadPackages ==
  {[pbc |-> p, support |-> CanonSupport] : p \in PbcTables}
    \cup {[pbc |-> CanonPbc, support |-> s] : s \in SupportTables}

DatasetNames == {"SUPPORT", "PBC", "UNKNOWN"}

KwargsSet == {<<>>, [sequential |-> TRUE], [sequential |-> FALSE]}

\* the probabilities p handed to increase_censoring: 0, ..., 1 on the grid
PVals == 0..Whole(1)

\* the arrays handed to increase_censoring directly
AugTimes == {0, Whole(1), Whole(3)}

AugInputs ==
  {<<Array("int64", e), Array(dt, t)>> :
     <<e, t, dt>> \in UNION {[1..n -> {0, 1}] \X [1..n -> AugTimes] \X {"int64", "float64"}
                               : n \in 0..MaxLen}}
    \cup {<<Array("int64", <<1, 1, 0>>),
            Array("float64", <<Whole(10), Whole(5), Whole(3)>>)>>}

---------------------------------------------------------------------------
(* The state machine *)

Init ==
  /\ pkg \in SessionPackages
  /\ heap = <<>>
  /\ pairs = {}
  /\ call = [op |-> "none"]
  /\ ret = [kind |-> "none"]
  /\ ncalls = 0

LoadDataset(dataset, kwargs) ==
  /\ ncalls < MaxCalls
  /\ \E r \in {load_dataset(pkg, dataset, kwargs)} :
       \E a \in {IF r.kind = "return" THEN Alloc(heap, r.value)
                 ELSE [heap |-> heap, value |-> r.value]} :
         /\ heap' = a.heap
         /\ ret' = [kind |-> r.kind, value |-> a.value]
         /\ pairs' = IF r.kind = "return" THEN pairs \cup PairsOf(a.value) ELSE pairs
  /\ call' = [op |-> "load_dataset", dataset |-> dataset, kwargs |-> kwargs,
              n0 |-> Len(heap)]
  /\ ncalls' = ncalls + 1
  /\ UNCHANGED pkg

IncreaseCensoring(eId, tId, p, mask, u) ==
  /\ ncalls < MaxCalls
  /\ <<eId, tId>> \in pairs
  /\ \E r \in {increase_censoring(heap, eId, tId, mask, u)} :
       /\ heap' = r.heap
       /\ ret' = [kind |-> "return", value |-> r.value]
       /\ pairs' = pairs \cup PairsOf(r.value)
       /\ call' = [op |-> "increase_censoring", e |-> eId, t |-> tId, p |-> p,
                   e0 |-> heap[eId].data, t0 |-> heap[tId].data,
                   dtype |-> heap[tId].dtype,
                   toswitch |-> r.toswitch, n0 |-> Len(heap)]
  /\ ncalls' = ncalls + 1
  /\ UNCHANGED pkg

\* a call of the caller: any dataset name and keywords
Load ==
  \E dataset \in DatasetNames, kwargs \in KwargsSet : LoadDataset(dataset, kwargs)

\* a call of the caller on a pair it holds, with any outcome of the random source
Augment ==
  \E pr \in pairs, p \in PVals :
    \E mask \in np_random_choice(Len(np_where(heap[pr[1]].data)), p) :
      \E u \in [1..CountTrue(mask) -> 0..(UDen - 1)] :
        IncreaseCensoring(pr[1], pr[2], p, mask, u)

Next == Load \/ Augment

Spec == Init /\ [][Next]_vars

\* One load, over the packaged tables of the bounds
InitLoad ==
  /\ pkg \in LoadPackages
  /\ heap = <<>>
  /\ pairs = {}
  /\ call = [op |-> "none"]
  /\ ret = [kind |-> "none"]
  /\ ncalls = 0

NextLoad == ncalls = 0 /\ Load

SpecLoad == InitLoad /\ [][NextLoad]_vars

\* One increase_censoring, over the arrays of the bounds
InitAug ==
  /\ pkg \in {[pbc |-> CanonPbc, support |-> CanonSupport]}
  /\ heap \in AugInputs
  /\ pairs = {<<1, 2>>}
  /\ call = [op |-> "none"]
  /\ ret = [kind |-> "none"]
  /\ ncalls = 0

NextAug == ncalls = 0 /\ Augment

SpecAug == InitAug /\ [][NextAug]_vars

---------------------------------------------------------------------------
(* The claims *)

OpIs(op) == call.op = op

Loaded(dataset) == OpIs("load_dataset") /\ call.dataset = dataset

Indices(n) == [j \in 1..n |-> j]

Selected(i) == \E k \in 1..Len(call.toswitch) : call.toswitch[k] = i

\* the arrays e and t of the last increase_censoring call, as they are now
NowE == heap[call.e].data

NowT == heap[call.t].data

\* C1: a load of a dataset name other than 'SUPPORT' and 'PBC' raises; it never
\* completes by returning a value
C1_UnknownDatasetRaises ==
  (OpIs("load_dataset") /\ call.dataset \notin {"SUPPORT", "PBC"}) => ret.kind = "raise"

\* C2: after increase_censoring, an index not selected keeps its e and t; a
\* selected index has e = 0 and 1 < t < its original t, both bounds strict
C2_AugmenterInvariant ==
  OpIs("increase_censoring") =>
    \A i \in 1..Len(call.e0) :
      IF Selected(i)
      THEN NowE[i] = 0 /\ Whole(1) < NowT[i] /\ NowT[i] < call.t0[i]
      ELSE NowE[i] = call.e0[i] /\ NowT[i] = call.t0[i]

\* C3: a selected index whose original t is at most 1 is never marked censored
\* with a resampled time greater than or equal to its original t: the call
\* reports an error, or skips the index, or clamps
C3_DegenerateGuarded ==
  OpIs("increase_censoring") =>
    \A i \in 1..Len(call.e0) :
      (Selected(i) /\ call.t0[i] <= Whole(1)) =>
        (ret.kind = "raise" \/ ~(NowE[i] = 0 /\ NowT[i] >= call.t0[i]))

\* x, t and e have one length and their j-th entries come from one row of the
\* full (X, T, E), rows taken in increasing order
Aligned(X, T, E, x, t, e) ==
  /\ Len(x) = Len(t)
  /\ Len(t) = Len(e)
  /\ \E S \in SUBSET (1..Len(T)) :
       \E idx \in {sorted(S)} :
         /\ Len(idx) = Len(t)
         /\ \A j \in 1..Len(idx) :
              x[j] = X[idx[j]] /\ t[j] = T[idx[j]] /\ e[j] = E[idx[j]]

C4Holds(v, full) ==
  IF v.type = "arrays"
  THEN Aligned(full.x.data, full.t.data, full.e.data, v.x.data, v.t.data, v.e.data)
  ELSE /\ Len(v.x) = Len(v.t)
       /\ Len(v.t) = Len(v.e)
       /\ \A k \in 1..Len(v.x) :
            Aligned(full.x.data, full.t.data, full.e.data,
                    v.x[k].data, v.t[k].data, v.e[k].data)

\* C4: the triple a load of 'SUPPORT' or 'PBC' returns has len(x) = len(t) =
\* len(e) at the top level and, in sequential mode, within every subject; row j
\* of x, t[j] and e[j] come from the same raw row
C4_TripleAligned ==
  (OpIs("load_dataset") /\ call.dataset \in {"SUPPORT", "PBC"}) =>
    /\ ret.kind = "return"
    /\ ret.value.type \in {"arrays", "lists"}
    /\ \E v \in {Deref(heap, ret.value)} :
         \E full \in {IF call.dataset = "SUPPORT" THEN SupportFull(pkg.support)
                       ELSE PbcFlat(pkg.pbc)} :
           C4Holds(v, full)

C4_Witness ==
  /\ Loaded("PBC")
  /\ ret.value.type = "lists"
  /\ Len(ret.value.x) = 2
  /\ Len(heap[ret.value.t[1]].data) = 2
  /\ heap[ret.value.t[1]].data[1] # heap[ret.value.t[1]].data[2]

C5Holds(v, full, data, kept) ==
  /\ v.t.data = [m \in 1..Len(kept) |-> data[kept[m]].d_time]
  /\ v.e.data = [m \in 1..Len(kept) |-> data[kept[m]].death]
  /\ v.x.data = [m \in 1..Len(kept) |-> full.x.data[kept[m]]]
  /\ \A m \in 1..Len(v.t.data) : ~IsNaN(v.t.data[m])
  /\ Len(v.x.data) = Cardinality({j \in 1..Len(data) : ~IsNaN(data[j].d_time)})
  /\ \A j \in 1..Len(data) :
       (IsNaN(data[j].alb) /\ ~IsNaN(data[j].d_time)) =>
         \E m \in 1..Len(v.x.data) : kept[m] = j /\ v.x.data[m] = full.x.data[j]

\* the raw rows whose time is present, in row order
TimePresent(data) ==
  LET Present(j) == ~IsNaN(data[j].d_time)
  IN SelectSeq(Indices(Len(data)), Present)

\* C5: the SUPPORT reader returns exactly the raw rows whose time is present, in
\* row order, x, t and e alike: no returned time is missing, the number of rows
\* returned is the number of raw rows with a time, and a row with a missing
\* covariate and a time is kept
C5_SupportFilter ==
  Loaded("SUPPORT") =>
    /\ ret.kind = "return"
    /\ ret.value.type = "arrays"
    /\ \E v \in {Deref(heap, ret.value)} :
         \E full \in {SupportFull(pkg.support)} :
           \E kept \in {TimePresent(pkg.support)} :
             C5Holds(v, full, pkg.support, kept)

C5_Witness ==
  /\ Loaded("SUPPORT")
  /\ Len(pkg.support) = 3
  /\ IsNaN(pkg.support[1].alb) /\ ~IsNaN(pkg.support[1].d_time)
  /\ IsNaN(pkg.support[2].d_time)
  /\ ~IsNaN(pkg.support[3].d_time)
  /\ Len(heap[ret.value.x].data) = 2

\* the identifiers of a table, ascending: the k-th has k - 1 smaller ones
Ascending(idset) ==
  [k \in 1..Cardinality(idset) |->
     CHOOSE i \in idset : Cardinality({w \in idset : w < i}) = k - 1]

\* the rows of subject i, in row order
RowsOf(id, i) == LET Has(j) == id[j] = i IN SelectSeq(Indices(Len(id)), Has)

C6Subject(x, t, e, flat, rows) ==
  /\ x = [m \in 1..Len(rows) |-> flat.x.data[rows[m]]]
  /\ t = [m \in 1..Len(rows) |-> flat.t.data[rows[m]]]
  /\ e = [m \in 1..Len(rows) |-> flat.e.data[rows[m]]]

C6Holds(v, flat, id, asc) ==
  /\ v.type = "lists"
  /\ Len(v.x) = Len(asc)
  /\ Len(v.t) = Len(asc)
  /\ Len(v.e) = Len(asc)
  /\ \A k \in 1..Len(asc) :
       C6Subject(v.x[k].data, v.t[k].data, v.e[k].data, flat, RowsOf(id, asc[k]))
  /\ SumSeq([k \in 1..Len(v.x) |-> Len(v.x[k].data)]) = Len(flat.x.data)

\* C6: the sequential PBC result is the partition of the flat result by subject
\* identifier: one entry per distinct identifier, entries by ascending
\* identifier, entry k holding the flat rows of the k-th smallest identifier in
\* row order; no row is lost or duplicated
C6_SequentialPartition ==
  (Loaded("PBC") /\ kwargs_get(call.kwargs, "sequential", FALSE)) =>
    /\ ret.kind = "return"
    /\ \E v \in {Deref(heap, ret.value)} :
         \E flat \in {load_pbc_dataset(pkg.pbc, FALSE)} :
           \E asc \in {Ascending({pkg.pbc[j].id : j \in 1..Len(pkg.pbc)})} :
             C6Holds(v, flat, ColumnOf(pkg.pbc, "id"), asc)

C6_Witness ==
  /\ Loaded("PBC")
  /\ kwargs_get(call.kwargs, "sequential", FALSE)
  /\ ColumnOf(pkg.pbc, "id") = <<2, 1, 2>>
  /\ Len(ret.value.x) = 2
  /\ Len(heap[ret.value.x[2]].data) = 2

\* C7: load_dataset routes by name: 'SUPPORT' gives the SUPPORT reader's result
\* whatever the keywords; 'PBC' gives the PBC reader's result for the value of
\* the sequential keyword, the flat triple when the keyword is absent
C7_Routes ==
  OpIs("load_dataset") =>
    /\ call.dataset = "SUPPORT" =>
         /\ ret.kind = "return"
         /\ Deref(heap, ret.value) = load_support_dataset(pkg.support)
    /\ call.dataset = "PBC" =>
         /\ ret.kind = "return"
         /\ "sequential" \in DOMAIN call.kwargs =>
              Deref(heap, ret.value) = load_pbc_dataset(pkg.pbc, call.kwargs.sequential)
         /\ "sequential" \notin DOMAIN call.kwargs =>
              /\ ret.value.type = "arrays"
              /\ Deref(heap, ret.value) = load_pbc_dataset(pkg.pbc, FALSE)

C7_Witness ==
  /\ Loaded("PBC")
  /\ DOMAIN call.kwargs = {}
  /\ ret.value.type = "arrays"
  /\ Len(heap[ret.value.t].data) = 3
  /\ Cardinality({pkg.pbc[j].id : j \in 1..Len(pkg.pbc)}) = 2

\* C8: increase_censoring changes the caller's arrays in place and returns those
\* same arrays: no copy is made, the lengths stay, and the caller's e is 0 at
\* every switched index
C8_InPlace ==
  OpIs("increase_censoring") =>
    /\ ret.kind = "return"
    /\ ret.value.e = call.e
    /\ ret.value.t = call.t
    /\ Len(heap) = call.n0
    /\ Len(NowE) = Len(call.e0)
    /\ Len(NowT) = Len(call.t0)
    /\ \A i \in 1..Len(call.e0) : Selected(i) => (call.e0[i] = 1 /\ NowE[i] = 0)

C8_Witness ==
  /\ OpIs("increase_censoring")
  /\ Len(call.toswitch) = 2
  /\ NowE # call.e0
  /\ NowT # call.t0

\* C9: a load returns the values a first call returns, in arrays that are new:
\* none is an array returned before, whatever loads and increase_censoring
\* calls came before
C9_FreshAndPure ==
  (OpIs("load_dataset") /\ ret.kind = "return") =>
    /\ IdsOf(ret.value) \cap (1..call.n0) = {}
    /\ IdsOf(ret.value) \subseteq 1..Len(heap)
    /\ ret.value.type = "arrays" => Cardinality(IdsOf(ret.value)) = 3
    /\ ret.value.type = "lists" => Cardinality(IdsOf(ret.value)) = 3 * Len(ret.value.x)
    /\ Deref(heap, ret.value) = load_dataset(pkg, call.dataset, call.kwargs).value

\* a third call that loads SUPPORT again after increase_censoring changed the
\* arrays of the first load
C9_Witness ==
  /\ Loaded("SUPPORT")
  /\ ncalls = 3
  /\ call.n0 = 3
  /\ heap[1] = heap[ret.value.x]
  /\ heap[2] # heap[ret.value.t]
  /\ heap[3] # heap[ret.value.e]

C10General ==
  /\ \A i \in 1..Len(call.e0) : Selected(i) => call.e0[i] = 1
  /\ \A i \in 1..Len(call.e0) :
       call.e0[i] = 0 => (NowE[i] = 0 /\ NowT[i] = call.t0[i])
  /\ \A i \in 1..Len(call.e0) : NowE[i] = 1 => call.e0[i] = 1
  /\ call.p = 0 => (NowE = call.e0 /\ NowT = call.t0)
  /\ call.p = Whole(1) =>
       \A i \in 1..Len(call.e0) : NowE[i] = 0 /\ (call.e0[i] = 1 => Selected(i))

\* the spec's scenario: e=[1,1,0], t=[10.0,5.0,3.0], p=1.0
C10Scenario ==
  /\ OpIs("increase_censoring")
  /\ call.e0 = <<1, 1, 0>>
  /\ call.t0 = <<Whole(10), Whole(5), Whole(3)>>
  /\ call.dtype = "float64"
  /\ call.p = Whole(1)

===========================================================================
